---- MODULE Spec2Model ----
(***************************************************************************)
(* Band-index computation of the notebook                                  *)
(* Landsat8_Level1_Level2_Comparison.ipynb: calculate_band_indices on a    *)
(* data cube (an xarray Dataset of named bands), and the cell that filters *)
(* the Level-2 minus Level-1 MNDWI difference.                             *)
(*                                                                         *)
(* A sample is a float.  Finite floats are modelled as exact rationals     *)
(* n/d in lowest terms (rounding is not modelled); d = 0 encodes the IEEE  *)
(* specials: 1/0 is +inf, -1/0 is -inf, 0/0 is NaN.  Band samples are the  *)
(* finite non-negative values 0..MaxVal.                                   *)
(***************************************************************************)
EXTENDS Integers, FiniteSets, Sequences, TLC

\* ---------------------------------------------------------------- bounds
MaxVal == 2
NCells == 1
MaxCalls == 2

\* ------------------------------------------------------ program constants
dc_level1_plotindex == 4
dc_level2_plotindex == 3
FilterBound == -2

\* The time axis is the shortest one on which both isel(time=...) calls of
\* the notebook are in range.
Times == 0..(IF dc_level1_plotindex > dc_level2_plotindex
             THEN dc_level1_plotindex ELSE dc_level2_plotindex)
Cells == 1..NCells
Pos == Times \X Cells
Val == 0..MaxVal

\* ------------------------------------------------------- float arithmetic
Abs(x) == IF x < 0 THEN -x ELSE x
Sign(x) == IF x < 0 THEN -1 ELSE IF x > 0 THEN 1 ELSE 0

RECURSIVE GCD(_, _)
GCD(a, b) == IF b = 0 THEN a ELSE GCD(b, a % b)

\* The float n/d, d # 0, in lowest terms with a positive denominator.
Rat(n, d) ==
    LET g == GCD(Abs(n), Abs(d))
        s == IF d < 0 THEN -1 ELSE 1
    IN [n |-> s * (n \div g), d |-> s * (d \div g)]

F(i) == [n |-> i, d |-> 1]
NaN == [n |-> 0, d |-> 0]
Inf(s) == [n |-> s, d |-> 0]
IsNaN(x) == x.d = 0 /\ x.n = 0
IsInf(x) == x.d = 0 /\ x.n # 0
IsFin(x) == x.d # 0

FNeg(x) == [n |-> -x.n, d |-> x.d]

FAdd(x, y) ==
    IF IsNaN(x) \/ IsNaN(y) THEN NaN
    ELSE IF IsInf(x) /\ IsInf(y) THEN (IF x.n = y.n THEN x ELSE NaN)
    ELSE IF IsInf(x) THEN x
    ELSE IF IsInf(y) THEN y
    ELSE Rat(x.n * y.d + y.n * x.d, x.d * y.d)

FSub(x, y) == FAdd(x, FNeg(y))

\* A division that substitutes 0 where the divisor is 0.
FDivZeroDefault(x, y) ==
    IF IsNaN(x) \/ IsNaN(y) THEN NaN
    ELSE IF IsInf(x) THEN (IF IsInf(y) THEN NaN
                           ELSE Inf(x.n * (IF y.n < 0 THEN -1 ELSE 1)))
    ELSE IF IsInf(y) THEN F(0)
    ELSE IF y.n = 0 THEN F(0)
    ELSE Rat(x.n * y.d, x.d * y.n)

\* True division of floats: numpy raises nothing on a zero divisor, it
\* stores +-inf (nonzero dividend) or NaN (0/0).
FDiv(x, y) ==
    IF IsNaN(x) \/ IsNaN(y) THEN NaN
    ELSE IF IsInf(x) THEN (IF IsInf(y) THEN NaN
                           ELSE Inf(x.n * (IF y.n < 0 THEN -1 ELSE 1)))
    ELSE IF IsInf(y) THEN F(0)
    ELSE IF y.n = 0 THEN (IF x.n = 0 THEN NaN ELSE Inf(Sign(x.n)))
    ELSE Rat(x.n * y.d, x.d * y.n)

\* x > y on floats: False as soon as one side is NaN.
FGt(x, y) ==
    IF IsNaN(x) \/ IsNaN(y) THEN FALSE
    ELSE IF IsInf(x) THEN x.n > 0 /\ ~(IsInf(y) /\ y.n > 0)
    ELSE IF IsInf(y) THEN y.n < 0
    ELSE x.n * y.d > y.n * x.d

\* --------------------------------------------------- layers (DataArrays)
\* A layer has dimensions (time, y, x) or, without a time axis, (y, x).
TYX == "time,y,x"
YX == "y,x"

\* The sample of layer A that xarray's broadcasting by dimension name pairs
\* with position p of a (time, y, x) result.
At(A, p) == IF A.dims = TYX THEN A.data[p] ELSE A.data[p[2]]

XrSub(A, B) ==
    IF A.dims = YX /\ B.dims = YX
    THEN [dims |-> YX, data |-> [c \in Cells |-> FSub(A.data[c], B.data[c])]]
    ELSE [dims |-> TYX, data |-> [p \in Pos |-> FSub(At(A, p), At(B, p))]]

\* A sum whose second operand is one time step out of line.
XrAddShifted(A, B) ==
    IF A.dims = YX /\ B.dims = YX
    THEN [dims |-> YX, data |-> [c \in Cells |-> FAdd(A.data[c], B.data[c])]]
    ELSE [dims |-> TYX,
          data |-> [p \in Pos |->
                       FAdd(At(A, p),
                            At(B, <<IF p[1] + 1 \in Times THEN p[1] + 1 ELSE 0,
                                    p[2]>>))]]

XrAdd(A, B) ==
    IF A.dims = YX /\ B.dims = YX
    THEN [dims |-> YX, data |-> [c \in Cells |-> FAdd(A.data[c], B.data[c])]]
    ELSE [dims |-> TYX, data |-> [p \in Pos |-> FAdd(At(A, p), At(B, p))]]

XrDiv(A, B) ==
    IF A.dims = YX /\ B.dims = YX
    THEN [dims |-> YX, data |-> [c \in Cells |-> FDiv(A.data[c], B.data[c])]]
    ELSE [dims |-> TYX, data |-> [p \in Pos |-> FDiv(At(A, p), At(B, p))]]

\* A.isel(time=t): the (y, x) slice of a (time, y, x) layer.
Isel(A, t) == [dims |-> YX, data |-> [c \in Cells |-> A.data[<<t, c>>]]]

\* A.where(A > bound): samples failing the condition become NaN.
WhereGt(A, bound) ==
    [dims |-> A.dims,
     data |-> [c \in DOMAIN A.data |->
                  IF FGt(A.data[c], bound) THEN A.data[c] ELSE NaN]]

\* ------------------------------------------------- stacks (Datasets)
Required == {"nir", "red", "green", "swir1"}
InputBands == Required \cup {"blue"}
Derived == {"ndvi", "ndwi", "mndwi"}

AttributeError == "AttributeError"
NoError == "none"
Unset == "unset"

\* dc[name] = layer: adds the variable or overwrites the one of that name.
\* An assignment that rebuilds the Dataset from the index bands alone.
SetItemDropExtras(dc, name, layer) ==
    [k \in ((DOMAIN dc) \cap (Required \cup Derived)) \cup {name} |->
        IF k = name THEN layer ELSE dc[k]]

\* An assignment that adds to a layer already stored under the name.
SetItemAccumulate(dc, name, layer) ==
    [k \in DOMAIN dc \cup {name} |->
        IF k # name THEN dc[k]
        ELSE IF name \in DOMAIN dc THEN XrAdd(dc[name], layer) ELSE layer]

SetItem(dc, name, layer) ==
    [k \in DOMAIN dc \cup {name} |-> IF k = name THEN layer ELSE dc[k]]

\* The quotient with the operands of the difference swapped.
NormDiffSwapped(dc, a, b, c, d) ==
    XrDiv(XrSub(dc[b], dc[a]), XrAdd(dc[c], dc[d]))

\* (dc.a - dc.b)/(dc.c + dc.d)
NormDiff(dc, a, b, c, d) ==
    XrDiv(XrSub(dc[a], dc[b]), XrAdd(dc[c], dc[d]))

\* calculate_band_indices(dc): the three assignments in order.  dc.<band> on
\* a Dataset without that variable raises AttributeError, which ends the call
\* with the assignments made so far in place.
calculate_band_indices(dc) ==
    IF ~({"nir", "red"} \subseteq DOMAIN dc)
    THEN [dc |-> dc, raised |-> AttributeError]
    ELSE LET dc1 == SetItem(dc, "ndvi", NormDiff(dc, "nir", "red", "nir", "red"))
         IN IF ~({"green", "nir"} \subseteq DOMAIN dc1)
            THEN [dc |-> dc1, raised |-> AttributeError]
            ELSE LET dc2 == SetItem(dc1, "ndwi",
                                NormDiff(dc1, "green", "nir", "green", "nir"))
                 IN IF ~({"green", "swir1", "nir"} \subseteq DOMAIN dc2)
                    THEN [dc |-> dc2, raised |-> AttributeError]
                    ELSE [dc |-> SetItem(dc2, "mndwi",
                                    NormDiff(dc2, "green", "swir1", "nir", "swir1")),
                          raised |-> NoError]

\* ------------------------------------------------------------ the inputs
Profiles == [Required -> Val]

\* A stack of (time, y, x) bands: value v everywhere, except that the
\* required bands hold prof at position pos.
Scene(v, pos, prof) ==
    [b \in InputBands |->
        [dims |-> TYX,
         data |-> [p \in Pos |-> IF p = pos /\ b \in Required
                                 THEN F(prof[b]) ELSE F(v)]]]

Uniform(w) == [b \in Required |-> w]

Restrict(s, present) == [b \in present |-> s[b]]

\* The stack with band b stored without a time axis.
Flatten(s, b) == [s EXCEPT ![b] = Isel(s[b], 0)]

\* ------------------------------------------------------------- the state
VARIABLES heap, raised, ncalls, dc_level, mndwi_diff, filtered_mndwi_diff

vars == <<heap, raised, ncalls, dc_level, mndwi_diff, filtered_mndwi_diff>>

L1 == "data_cube_level1"
L2 == "data_cube_level2"
None == "None"
\* mndwi_diff and filtered_mndwi_diff before the histogram cell has run.
Unbound == [dims |-> "unbound", data |-> <<>>]

InitCommon ==
    /\ raised = [r \in DOMAIN heap |-> Unset]
    /\ ncalls = [r \in DOMAIN heap |-> 0]
    /\ dc_level = [r \in DOMAIN heap |-> None]
    /\ mndwi_diff = Unbound
    /\ filtered_mndwi_diff = Unbound

\* One stack about to be given to calculate_band_indices: a scene with or
\* without the extra band blue; a stack lacking any set of bands; a stack one
\* of whose bands has no time axis.
Init ==
    /\ \/ \E v \in Val, pos \in Pos, prof \in Profiles, extra \in SUBSET {"blue"} :
            heap = (L1 :> Restrict(Scene(v, pos, prof), Required \cup extra))
       \/ \E v \in Val, pos \in Pos, w \in Val, present \in SUBSET InputBands :
            heap = (L1 :> Restrict(Scene(v, pos, Uniform(w)), present))
       \/ \E v \in Val, pos \in Pos, w \in Val, b \in InputBands :
            heap = (L1 :> Flatten(Scene(v, pos, Uniform(w)), b))
    /\ InitCommon

\* The two stacks dc.load returns, every band (time, y, x).  The two plot
\* slices hold the same acquisition: Level-1 differs from the background at
\* one of its samples, Level-2 holds the background throughout.
InitNotebook ==
    /\ \E v \in Val, c \in Cells, prof \in Profiles :
          heap = (L1 :> Scene(v, <<dc_level1_plotindex, c>>, prof))
                 @@ (L2 :> Scene(v, <<dc_level2_plotindex, c>>, Uniform(v)))
    /\ InitCommon

\* The calls made so far, over the stacks in S.
RECURSIVE TotalCalls(_)
TotalCalls(S) ==
    IF S = {} THEN 0
    ELSE LET r == CHOOSE x \in S : TRUE IN ncalls[r] + TotalCalls(S \ {r})

\* A call cell that passes data_cube_level1 whatever stack it is written for.
CallOnLevel1(r) ==
    /\ TotalCalls(DOMAIN heap) < MaxCalls
    /\ LET res == calculate_band_indices(heap[L1])
       IN /\ heap' = [heap EXCEPT ![L1] = res.dc]
          /\ raised' = [raised EXCEPT ![r] = res.raised]
          /\ dc_level' = [dc_level EXCEPT
                            ![r] = IF res.raised = NoError THEN L1 ELSE @]
    /\ ncalls' = [ncalls EXCEPT ![r] = @ + 1]
    /\ UNCHANGED <<mndwi_diff, filtered_mndwi_diff>>

\* dc_levelN = calculate_band_indices(data_cube_levelN)
Call(r) ==
    /\ TotalCalls(DOMAIN heap) < MaxCalls
    /\ LET res == calculate_band_indices(heap[r])
       IN /\ heap' = [heap EXCEPT ![r] = res.dc]
          /\ raised' = [raised EXCEPT ![r] = res.raised]
          /\ dc_level' = [dc_level EXCEPT
                            ![r] = IF res.raised = NoError THEN r ELSE @]
    /\ ncalls' = [ncalls EXCEPT ![r] = @ + 1]
    /\ UNCHANGED <<mndwi_diff, filtered_mndwi_diff>>

\* The MNDWI histogram cell: the difference of the two plot slices, filtered.
\* It needs dc_level1 and dc_level2 bound to stacks that carry mndwi.
MndwiDiffCell ==
    /\ dc_level[L1] # None /\ dc_level[L2] # None
    /\ "mndwi" \in DOMAIN heap[dc_level[L1]]
    /\ "mndwi" \in DOMAIN heap[dc_level[L2]]
    /\ mndwi_diff' = XrSub(Isel(heap[dc_level[L2]]["mndwi"], dc_level2_plotindex),
                           Isel(heap[dc_level[L1]]["mndwi"], dc_level1_plotindex))
    /\ filtered_mndwi_diff' = WhereGt(mndwi_diff', F(FilterBound))
    /\ UNCHANGED <<heap, raised, ncalls, dc_level>>

Next == \E r \in DOMAIN heap : Call(r)

NextNotebook ==
    \/ \E r \in DOMAIN heap : Call(r)
    \/ MndwiDiffCell

Spec == Init /\ [][Next]_vars

NotebookSpec == InitNotebook /\ [][NextNotebook]_vars

\* ============================================================== claims
\* A call of calculate_band_indices on stack r is the step that counts it.
CallStep(r) == ncalls'[r] = ncalls[r] + 1

\* A stack as the data-access layer delivers it: every layer (time, y, x).
Aligned(dc) == \A b \in DOMAIN dc : dc[b].dims = TYX

\* The integer sample of input band b at position p.
Sample(dc, b, p) == dc[b].data[p].n

\* x is the finite quotient num/den.
IsQuotient(x, num, den) == x.d # 0 /\ x.n * den = x.d * num

\* The bands each assignment of calculate_band_indices reads:
\* (o[1] - o[2]) / (o[3] + o[4]).
Operands(i) ==
    CASE i = "ndvi" -> <<"nir", "red", "nir", "red">>
      [] i = "ndwi" -> <<"green", "nir", "green", "nir">>
      [] i = "mndwi" -> <<"green", "swir1", "nir", "swir1">>

\* Two bands that one index reads together are stored with different shapes.
Mismatched(dc) ==
    \E i \in Derived :
        \E a, b \in {Operands(i)[k] : k \in 1..4} :
            /\ a \in DOMAIN dc /\ b \in DOMAIN dc
            /\ dc[a].dims # dc[b].dims

\* The stack of the (y, x) slices at time t of the input bands of dc.
SliceStack(dc, t) == [b \in (DOMAIN dc) \cap InputBands |-> Isel(dc[b], t)]

\* C1: a call on a stack that lacks a required band ends in the missing-band
\* error (AttributeError) and leaves the stack with exactly the layers it had.
FailFastAtomic ==
    [][\A r \in DOMAIN heap :
          (CallStep(r) /\ ~(Required \subseteq DOMAIN heap[r]))
          => (raised'[r] = AttributeError /\ heap'[r] = heap[r])]_vars

\* C2: after a call on an aligned stack, mndwi is (green - swir1) /
\* (green + swir1) at every sample, as the notebook defines MNDWI.
MndwiAsDocumented ==
    \A r \in DOMAIN heap :
        (raised[r] = NoError /\ Aligned(heap[r])) =>
            \A p \in Pos :
                heap[r]["mndwi"].data[p]
                  = FDiv(FSub(heap[r]["green"].data[p], heap[r]["swir1"].data[p]),
                         FAdd(heap[r]["green"].data[p], heap[r]["swir1"].data[p]))

\* C3: a call on a stack holding nir, red, green and swir1 leaves the layer
\* names those before the call plus ndvi, ndwi, mndwi, and every layer that
\* existed under another name keeps its value at every sample.
FrameOfCall ==
    [][\A r \in DOMAIN heap :
          (CallStep(r) /\ Required \subseteq DOMAIN heap[r])
          => /\ DOMAIN heap'[r] = (DOMAIN heap[r]) \cup Derived
             /\ \A k \in (DOMAIN heap[r]) \ Derived : heap'[r][k] = heap[r][k]]_vars

FrameOfCallWitness ==
    \E r \in DOMAIN heap :
        /\ ncalls[r] >= 1 /\ raised[r] = NoError
        /\ DOMAIN heap[r] = InputBands \cup Derived
        /\ \E p, q \in Pos : heap[r]["blue"].data[p] # heap[r]["nir"].data[q]

\* C4: at every sample of an aligned stack with a nonzero denominator, ndvi
\* is (nir - red)/(nir + red) and ndwi is (green - nir)/(green + nir); green
\* equal to a nonzero nir gives ndwi 0, and nir 0.5, red 0.1 gives ndvi 2/3.
NdviNdwiFormulas ==
    /\ \A r \in DOMAIN heap :
          (raised[r] = NoError /\ Aligned(heap[r])) =>
              \A p \in Pos :
                  LET nir == Sample(heap[r], "nir", p)
                      red == Sample(heap[r], "red", p)
                      green == Sample(heap[r], "green", p)
                      ndvi == heap[r]["ndvi"].data[p]
                      ndwi == heap[r]["ndwi"].data[p]
                  IN /\ nir + red # 0 => IsQuotient(ndvi, nir - red, nir + red)
                     /\ green + nir # 0 => IsQuotient(ndwi, green - nir, green + nir)
                     /\ (green = nir /\ nir # 0) => ndwi = F(0)
    /\ LET tenths == ("nir" :> 5) @@ ("red" :> 1) @@ ("green" :> 2) @@ ("swir1" :> 1)
           out == calculate_band_indices(Scene(1, <<0, 1>>, tenths))
       IN /\ out.raised = NoError
          /\ out.dc["ndvi"].data[<<0, 1>>] = [n |-> 2, d |-> 3]
    /\ LET tenths == ("nir" :> 2) @@ ("red" :> 1) @@ ("green" :> 2) @@ ("swir1" :> 1)
           out == calculate_band_indices(Scene(1, <<0, 1>>, tenths))
       IN out.dc["ndwi"].data[<<0, 1>>] = F(0)

NdviNdwiWitness ==
    \E r \in DOMAIN heap : \E p \in Pos :
        /\ raised[r] = NoError /\ Aligned(heap[r])
        /\ Sample(heap[r], "nir", p) = 2
        /\ Sample(heap[r], "red", p) = 1
        /\ Sample(heap[r], "green", p) = 2
        /\ heap[r]["ndvi"].data[p] = [n |-> 1, d |-> 3]
        /\ heap[r]["ndwi"].data[p] = F(0)

\* C5: on a stack of non-negative samples, every finite sample (nonzero
\* denominator) of ndvi, ndwi and mndwi lies in [-1, 1].
RangeBound ==
    \A r \in DOMAIN heap :
        (/\ raised[r] = NoError /\ Aligned(heap[r])
         /\ \A b \in Required : \A p \in Pos : Sample(heap[r], b, p) >= 0) =>
            \A i \in Derived : \A p \in Pos :
                LET x == heap[r][i].data[p]
                IN IsFin(x) => (-x.d <= x.n /\ x.n <= x.d)

ShapeValidated ==
    [][\A r \in DOMAIN heap :
          (CallStep(r) /\ Mismatched(heap[r]))
          => (raised'[r] # NoError /\ heap'[r] = heap[r])]_vars

\* C8: a call on a stack that an earlier call completed on leaves every layer
\* and the set of layer names as they were.
Idempotent ==
    [][\A r \in DOMAIN heap :
          (CallStep(r) /\ raised[r] = NoError)
          => (heap'[r] = heap[r] /\ raised'[r] = NoError)]_vars

IdempotentWitness ==
    \E r \in DOMAIN heap :
        /\ ncalls[r] >= 2 /\ raised[r] = NoError
        /\ \E p \in Pos : IsFin(heap[r]["ndvi"].data[p]) /\ heap[r]["ndvi"].data[p] # F(0)

\* C9: two stacks that agree on the required bands at a position carry equal
\* ndvi, ndwi and mndwi there, whatever they hold elsewhere; and a time slice
\* processed alone gives the slice of the result of processing all together.
SampleIndependent ==
    /\ \A r1, r2 \in DOMAIN heap :
          (raised[r1] = NoError /\ raised[r2] = NoError) =>
              \A p \in Pos :
                  (\A b \in Required : heap[r1][b].data[p] = heap[r2][b].data[p])
                  => \A i \in Derived : heap[r1][i].data[p] = heap[r2][i].data[p]
    /\ \A r \in DOMAIN heap :
          raised[r] = NoError =>
              \A t \in Times :
                  LET alone == calculate_band_indices(SliceStack(heap[r], t))
                  IN /\ alone.raised = NoError
                     /\ \A i \in Derived : alone.dc[i] = Isel(heap[r][i], t)

SampleIndependentWitness ==
    /\ raised[L1] = NoError /\ raised[L2] = NoError
    /\ \E p, q \in Pos :
          /\ \A b \in Required : heap[L1][b].data[p] = heap[L2][b].data[p]
          /\ IsFin(heap[L1]["ndvi"].data[p])
          /\ \E b \in Required : heap[L1][b].data[q] # heap[L2][b].data[q]
          /\ \E i \in Derived : heap[L1][i].data[q] # heap[L2][i].data[q]

\* C10: the filtered difference is no-data exactly where the difference is
\* smaller than -2; every other sample, -2 included, keeps its value.
FilterDropsOnlyBelowBound ==
    filtered_mndwi_diff # Unbound =>
        \A c \in Cells :
            LET x == mndwi_diff.data[c]
            IN IF FGt(F(FilterBound), x)
               THEN IsNaN(filtered_mndwi_diff.data[c])
               ELSE filtered_mndwi_diff.data[c] = x

\* C11: a completed call returns the very stack it was given, which then
\* carries ndvi, ndwi and mndwi, and a call on one stack, in whatever order
\* the calls come, leaves the layers and the layer names of every other stack
\* (and the name bound to it) unchanged.
InPlaceNoInterference ==
    [][\A r \in DOMAIN heap :
          CallStep(r) =>
              /\ raised'[r] = NoError =>
                    /\ dc_level'[r] = r
                    /\ Derived \subseteq DOMAIN heap'[dc_level'[r]]
              /\ \A o \in (DOMAIN heap) \ {r} :
                    /\ heap'[o] = heap[o]
                    /\ dc_level'[o] = dc_level[o]]_vars

InPlaceWitness ==
    /\ dc_level[L1] = L1 /\ dc_level[L2] = L2
    /\ Derived \subseteq DOMAIN heap[dc_level[L1]]
    /\ Derived \subseteq DOMAIN heap[dc_level[L2]]
    /\ heap[L1]["mndwi"] # heap[L2]["mndwi"]
    /\ heap[L1]["ndvi"] # heap[L2]["ndvi"]

====
